---------------------------- MODULE Spec2Model ----------------------------
(***************************************************************************)
(* Model of the detection-request pipeline of app.py: the POST handler     *)
(* upload_file (validate, save, detect, aggregate, resolve) and the GET    *)
(* handler show_result, over a shared filesystem.                          *)
(*                                                                         *)
(* Strings the code splits, lower-cases or joins are sequences of          *)
(* one-character strings; a path is a sequence of such segments, relative  *)
(* to the working directory of the server.                                 *)
(***************************************************************************)
EXTENDS Integers, Sequences, FiniteSets, TLC

VARIABLES
    fs_files,   \* regular files on disk: path -> content
    fs_dirs,    \* directories on disk: set of paths
    post,       \* the POST requests in flight: id -> locals of upload_file
    get,        \* the last answer of show_result
    agg         \* the aggregation of one detection list (statistics only)

vars == <<fs_files, fs_dirs, post, get, agg>>

(***************************************************************************)
(* String literals.                                                        *)
(***************************************************************************)
png == <<"p", "n", "g">>
jpg == <<"j", "p", "g">>
jpeg == <<"j", "p", "e", "g">>
gif == <<"g", "i", "f">>
webp == <<"w", "e", "b", "p">>
bmp == <<"b", "m", "p">>
tiff == <<"t", "i", "f", "f">>
tif == <<"t", "i", "f">>
exe == <<"e", "x", "e">>
Unknown == <<"U", "n", "k", "n", "o", "w", "n">>
octet_stream == <<"o", "c", "t", "e", "t", "-", "s", "t", "r", "e", "a", "m">>
dotdot == <<".", ".">>
dot == <<".">>
predict == <<"p", "r", "e", "d", "i", "c", "t">>
predict2 == <<"p", "r", "e", "d", "i", "c", "t", "2">>
runs == <<"r", "u", "n", "s">>
detect == <<"d", "e", "t", "e", "c", "t">>
out == <<"o", "u", "t">>
nosuch == <<"n", "o", "s", "u", "c", "h">>

UPLOAD_FOLDER == <<"u", "p", "l", "o", "a", "d", "s">>
RESULTS_BASE_FOLDER == <<runs, detect>>
ALLOWED_EXTENSIONS == {png, jpg, jpeg, gif, webp, bmp, tiff, tif}

(***************************************************************************)
(* str.lower, str.upper, '.' in s, s.rsplit('.', 1)[1]                     *)
(***************************************************************************)
LowerChar(c) ==
    CASE c = "J" -> "j" [] c = "P" -> "p" [] c = "G" -> "g" [] c = "N" -> "n"
      [] c = "E" -> "e" [] c = "X" -> "x" [] c = "C" -> "c"
      [] OTHER -> c

UpperChar(c) ==
    CASE c = "j" -> "J" [] c = "p" -> "P" [] c = "g" -> "G" [] c = "n" -> "N"
      [] c = "e" -> "E" [] c = "x" -> "X" [] c = "c" -> "C" [] c = "i" -> "I"
      [] c = "f" -> "F" [] c = "t" -> "T" [] c = "w" -> "W" [] c = "b" -> "B"
      [] c = "m" -> "M"
      [] OTHER -> c

lower(s) == [i \in 1..Len(s) |-> LowerChar(s[i])]

upper(s) == [i \in 1..Len(s) |-> UpperChar(s[i])]

contains_dot(s) == \E i \in 1..Len(s) : s[i] = "."

RECURSIVE rsplit_tail(_)
\* s.rsplit('.', 1)[1] for a string that holds a '.': scan from the right
\* end and keep what follows the first '.' met.
rsplit_tail(s) ==
    IF s = <<>> THEN <<>>
    ELSE IF s[Len(s)] = "." THEN <<>>
    ELSE Append(rsplit_tail(SubSeq(s, 1, Len(s) - 1)), s[Len(s)])

allowed_file_first_dot(filename) ==
    \* the extension taken after the FIRST '.', as split('.', 1) would
    /\ contains_dot(filename)
    /\ LET i == CHOOSE k \in 1..Len(filename) :
                    /\ filename[k] = "."
                    /\ \A j \in 1..(k - 1) : filename[j] # "."
       IN lower(SubSeq(filename, i + 1, Len(filename))) \in ALLOWED_EXTENSIONS

allowed_file(filename) ==
    /\ contains_dot(filename)
    /\ lower(rsplit_tail(filename)) \in ALLOWED_EXTENSIONS

(***************************************************************************)
(* Rounding.  Confidences are exact rationals n/10000 (the detector's      *)
(* float32 scores are dyadic, and sums of a few of them are exact in a     *)
(* double); round(x, 2) and the format ".1f" round the exact value to the  *)
(* nearest, ties to even.                                                  *)
(***************************************************************************)
RoundHalfEven(n, d) ==
    LET q == n \div d
        r == n % d
    IN  IF 2 * r < d THEN q
        ELSE IF 2 * r > d THEN q + 1
        ELSE IF q % 2 = 0 THEN q ELSE q + 1

\* round(confidence_value, 2), in hundredths
confidence_display(conf) == RoundHalfEven(conf * 100, 10000)

\* f"{(total_conf / count) * 100:.1f}%": the text "<whole>.<tenth>%"
format_avg_conf(total_conf, count) ==
    LET tenths == RoundHalfEven(total_conf * 1000, count * 10000)
    IN  [whole |-> tenths \div 10, tenth |-> tenths % 10]

(***************************************************************************)
(* The detector (MODEL.predict, external): boxes with a class id, a        *)
(* confidence in 1/10000 and a normalised box; MODEL.names is its class    *)
(* table.                                                                  *)
(***************************************************************************)
MODEL_names == (0 :> "person") @@ (16 :> "dog")

\* MODEL.names.get(class_id, 'Unknown')
class_name(class_id) ==
    IF class_id \in DOMAIN MODEL_names THEN MODEL_names[class_id] ELSE "Unknown"

NoStats == [name \in {} |-> [count |-> 0, total_conf |-> 0]]

accumulate_last_conf(stats, box) ==
    \* total_conf overwritten instead of accumulated
    LET name == class_name(box.cls)
        base == IF name \in DOMAIN stats
                THEN stats
                ELSE (name :> [count |-> 0, total_conf |-> 0]) @@ stats
    IN  [base EXCEPT ![name] = [count |-> @.count + 1, total_conf |-> box.conf]]

\* one pass of the loop body's "Accumulate stats" part
accumulate(stats, box) ==
    LET name == class_name(box.cls)
        base == IF name \in DOMAIN stats
                THEN stats
                ELSE (name :> [count |-> 0, total_conf |-> 0]) @@ stats
    IN  [base EXCEPT ![name] = [count |-> @.count + 1,
                                total_conf |-> @.total_conf + box.conf]]

RECURSIVE object_stats(_)
\* object_stats after the loop over the boxes, first box first
object_stats(boxes) ==
    IF boxes = <<>> THEN NoStats
    ELSE accumulate(object_stats(SubSeq(boxes, 1, Len(boxes) - 1)),
                    boxes[Len(boxes)])

\* detection_details after the loop
detection_details(boxes) ==
    [i \in 1..Len(boxes) |->
        [label |-> class_name(boxes[i].cls),
         confidence |-> confidence_display(boxes[i].conf),
         xywhn |-> boxes[i].xywhn]]

final_object_counts(stats) ==
    [name \in DOMAIN stats |->
        IF stats[name].count > 0
        THEN [count |-> stats[name].count,
              avg_conf |-> format_avg_conf(stats[name].total_conf,
                                           stats[name].count)]
        ELSE [count |-> 0, avg_conf |-> [whole |-> 0, tenth |-> 0]]]

\* "if results and results[0].boxes": the boxes the loop runs over
boxes_of(results) ==
    IF (~results.empty) /\ results.boxes # <<>> THEN results.boxes ELSE <<>>

(***************************************************************************)
(* The filesystem: os.path.join, os.path.exists, os.path.isfile,           *)
(* os.path.basename.                                                       *)
(***************************************************************************)
osp_join(dir, name) == Append(dir, name)

osp_basename(path) == IF path = <<>> THEN <<>> ELSE path[Len(path)]

RECURSIVE walk(_, _, _, _)
\* The kernel's lookup of `rest` from the existing directory `cur`: '.'
\* stays, '..' goes to the parent, a name must be a directory, or a file
\* as the last segment.
walk(files, dirs, cur, rest) ==
    IF rest = <<>> THEN [ok |-> TRUE, at |-> cur]
    ELSE LET seg == Head(rest)
             next == Append(cur, seg)
         IN  IF seg = dot THEN walk(files, dirs, cur, Tail(rest))
             ELSE IF seg = dotdot
                  THEN walk(files, dirs,
                            IF cur = <<>> THEN <<>>
                            ELSE SubSeq(cur, 1, Len(cur) - 1),
                            Tail(rest))
             ELSE IF next \in dirs THEN walk(files, dirs, next, Tail(rest))
             ELSE IF next \in DOMAIN files /\ Tail(rest) = <<>>
                  THEN [ok |-> TRUE, at |-> next]
             ELSE [ok |-> FALSE, at |-> <<>>]

osp_exists(files, dirs, path) == walk(files, dirs, <<>>, path).ok

osp_isfile(files, dirs, path) ==
    LET w == walk(files, dirs, <<>>, path)
    IN  w.ok /\ w.at \in DOMAIN files

read_file(files, dirs, path) == files[walk(files, dirs, <<>>, path).at]

\* a path's directory and all its ancestors (mkdir -p)
ancestors(dir) == {SubSeq(dir, 1, n) : n \in 0..Len(dir)}

(***************************************************************************)
(* Inputs: the filenames clients submit, the images they upload, what the  *)
(* detector answers for each image, and the directories it may report.     *)
(***************************************************************************)
Stems == {<<"c">>, <<>>, <<"c">> \o dot \o png, <<"c">> \o dot \o exe}

Suffixes ==
    ALLOWED_EXTENSIONS \cup
    {<<"J", "P", "G">>, <<"P", "n", "g">>, exe, <<>>, <<"p", "n">>,
     <<"j", "p", "g", "x">>}

Filenames ==
    Stems \cup {st \o dot \o sf : st \in Stems, sf \in Suffixes}

c_png == <<"c">> \o dot \o png
d_png == <<"d">> \o dot \o png
c_exe == <<"c">> \o dot \o exe

ConcFilenames == {c_png, d_png, c_exe}

Images == {"imgA", "imgB"}

Box == <<5000, 5000, 2500, 2500>>

\* what the detector finds in each image; imgB holds no object
detector_boxes(img) ==
    IF img = "imgA"
    THEN << [cls |-> 0, conf |-> 8125, xywhn |-> Box],
            [cls |-> 16, conf |-> 5000, xywhn |-> Box],
            [cls |-> 0, conf |-> 8750, xywhn |-> Box] >>
    ELSE <<>>

\* results[0].save_dir: none (the empty path), a run directory under
\* runs/detect, one named like the upload folder, one elsewhere
SaveDirs ==
    {<<>>, <<runs, detect, predict>>, <<runs, detect, predict2>>,
     <<runs, detect, UPLOAD_FOLDER>>, <<out, predict>>}

original(img) == [img |-> img, annotated |-> FALSE]
annotated(content) == [img |-> content.img, annotated |-> TRUE]

\* the disk when the server starts: an earlier run left an upload and its
\* annotated copy
FilesAtStart ==
    (<<UPLOAD_FOLDER, c_png>> :> original("imgB")) @@
    (<<runs, detect, predict, c_png>> :> annotated(original("imgB")))

DirsAtStart ==
    {<<>>, <<UPLOAD_FOLDER>>, <<runs>>, <<runs, detect>>,
     <<runs, detect, predict>>}

NoResults == [empty |-> TRUE, boxes |-> <<>>, save_dir |-> <<>>]

NoResponse ==
    [kind |-> "none", error |-> "", file_ext |-> <<>>,
     predict_folder |-> <<>>, filename |-> <<>>,
     object_counts |-> final_object_counts(NoStats),
     detection_details |-> <<>>]

Redirect(error, file_ext) ==
    [NoResponse EXCEPT !.kind = "redirect", !.error = error,
                       !.file_ext = file_ext]

NoGet ==
    [status |-> 0, predict_folder |-> <<>>, filename |-> <<>>,
     mimetype |-> [type |-> "", subtype |-> <<>>],
     content |-> [img |-> "", annotated |-> FALSE],
     tested |-> {}, served |-> {}]

NoAgg == [boxes |-> <<>>, done |-> FALSE,
          object_counts |-> final_object_counts(NoStats),
          detection_details |-> <<>>]

Request(has_file, filename, img) ==
    [pc |-> "recv", has_file |-> has_file, filename |-> filename,
     bytes |-> original(img), results |-> NoResults, read |-> original(""),
     wrote_copy |-> FALSE, saved |-> FALSE, predicted |-> FALSE,
     response |-> NoResponse]

Requests(names) ==
    {Request(TRUE, f, i) : f \in names, i \in Images}
        \cup {Request(FALSE, <<>>, "imgA")}

(***************************************************************************)
(* POST /  (upload_file)                                                   *)
(***************************************************************************)
validated_any_extension(p) ==
    \* "if file:" alone, the extension check left out
    p.has_file /\ p.filename # <<>>

\* the request reaches "ALL PROCESSING STARTS HERE" and passes its test
validated(p) ==
    p.has_file /\ p.filename # <<>> /\ allowed_file(p.filename)

\* the extension named in the error message
rejected_ext(original_filename) ==
    IF contains_dot(original_filename)
       /\ original_filename[Len(original_filename)] # "."
    THEN upper(rsplit_tail(original_filename))
    ELSE Unknown

Validate(r) ==
    LET p == post[r] IN
    /\ p.pc = "recv"
    /\ post' = [post EXCEPT ![r] =
          IF ~p.has_file
          THEN [p EXCEPT !.pc = "done",
                  !.response = Redirect("No file selected for upload.", <<>>)]
          ELSE IF p.filename = <<>>
          THEN [p EXCEPT !.pc = "done",
                  !.response = Redirect("No file was chosen.", <<>>)]
          ELSE IF validated(p)
          THEN [p EXCEPT !.pc = "save"]
          ELSE [p EXCEPT !.pc = "done",
                  !.response = Redirect("Invalid file type.",
                                        rejected_ext(p.filename))]]
    /\ UNCHANGED <<fs_files, fs_dirs, get, agg>>

file_path_shared(reqs, r) ==
    \* the filename kept in one module-level variable, the first request's
    osp_join(<<UPLOAD_FOLDER>>,
             reqs[CHOOSE q \in DOMAIN reqs : \A o \in DOMAIN reqs : q <= o].filename)

\* file_path: the upload's place, a local of the request
file_path(reqs, r) == osp_join(<<UPLOAD_FOLDER>>, reqs[r].filename)

\* file.save(file_path)
Save(r) ==
    LET p == post[r] IN
    /\ p.pc = "save"
    /\ fs_files' = (file_path(post, r) :> p.bytes) @@ fs_files
    /\ post' = [post EXCEPT ![r] = [p EXCEPT !.pc = "predict", !.saved = TRUE]]
    /\ UNCHANGED <<fs_dirs, get, agg>>

\* MODEL.predict(source=file_path, save=True, ...) answers: it reads the
\* file, reports a directory (or none) and writes its annotated copy there
\* (or does not); an empty result list reports nothing.
Predict(r) ==
    LET p == post[r]
        src == file_path(post, r)
    IN
    /\ p.pc = "predict"
    /\ osp_isfile(fs_files, fs_dirs, src)
    /\ LET content == read_file(fs_files, fs_dirs, src) IN
       \E empty \in BOOLEAN, save_dir \in SaveDirs, writes \in BOOLEAN :
          /\ empty => (save_dir = <<>> /\ ~writes)
          /\ writes => save_dir # <<>>
          /\ post' = [post EXCEPT ![r] = [p EXCEPT
                 !.pc = "finish",
                 !.predicted = TRUE,
                 !.read = content,
                 !.wrote_copy = writes,
                 !.results = [empty |-> empty,
                              boxes |-> IF empty THEN <<>>
                                        ELSE detector_boxes(content.img),
                              save_dir |-> save_dir]]]
          /\ IF writes
             THEN /\ fs_files' = (osp_join(save_dir, osp_basename(src))
                                     :> annotated(content)) @@ fs_files
                  /\ fs_dirs' = fs_dirs \cup ancestors(save_dir)
             ELSE UNCHANGED <<fs_files, fs_dirs>>
    /\ UNCHANGED <<get, agg>>

\* MODEL.predict raises (an unreadable or corrupt image): nothing catches
\* it, the request ends in a server error.
PredictFail(r) ==
    LET p == post[r] IN
    /\ p.pc = "predict"
    /\ post' = [post EXCEPT ![r] = [p EXCEPT
           !.pc = "done", !.predicted = TRUE,
           !.response = [NoResponse EXCEPT !.kind = "fault"]]]
    /\ UNCHANGED <<fs_files, fs_dirs, get, agg>>

predict_folder_name_needs_boxes(results, filename, files, dirs) ==
    \* the detector's folder taken only when something was detected
    IF (~results.empty) /\ results.save_dir # <<>> /\ results.boxes # <<>>
       /\ osp_exists(files, dirs, osp_join(results.save_dir, filename))
    THEN osp_basename(results.save_dir)
    ELSE UPLOAD_FOLDER

predict_folder_name_unchecked(results, filename, files, dirs) ==
    \* the detector's folder taken without looking for the file in it
    IF (~results.empty) /\ results.save_dir # <<>>
    THEN osp_basename(results.save_dir)
    ELSE UPLOAD_FOLDER

\* FILE FINDING AND FOLDER NAME LOGIC
predict_folder_name(results, filename, files, dirs) ==
    IF (~results.empty) /\ results.save_dir # <<>>
    THEN IF osp_exists(files, dirs, osp_join(results.save_dir, filename))
         THEN osp_basename(results.save_dir)
         ELSE UPLOAD_FOLDER
    ELSE UPLOAD_FOLDER

\* the rest of the accepted path: statistics, resolution, the result page
Finish(r) ==
    LET p == post[r]
        boxes == boxes_of(p.results)
    IN
    /\ p.pc = "finish"
    /\ post' = [post EXCEPT ![r] = [p EXCEPT
           !.pc = "done",
           !.response = [NoResponse EXCEPT
               !.kind = "result",
               !.predict_folder =
                   predict_folder_name(p.results, p.filename, fs_files, fs_dirs),
               !.filename = p.filename,
               !.object_counts = final_object_counts(object_stats(boxes)),
               !.detection_details = detection_details(boxes)]]]
    /\ UNCHANGED <<fs_files, fs_dirs, get, agg>>

(***************************************************************************)
(* GET /results/<predict_folder>/<filename>  (show_result)                 *)
(***************************************************************************)
GetFolders == {UPLOAD_FOLDER, predict, predict2, dotdot, nosuch}

GetNames ==
    {<<"c">> \o dot \o sf : sf \in Suffixes} \cup {<<"c">>, dotdot, dot, detect}

base_dir_always_results(predict_folder) ==
    \* without the test for the fallback upload folder
    osp_join(RESULTS_BASE_FOLDER, predict_folder)

base_dir(predict_folder) ==
    IF predict_folder = UPLOAD_FOLDER
    THEN <<UPLOAD_FOLDER>>
    ELSE osp_join(RESULTS_BASE_FOLDER, predict_folder)

mimetype(filename) ==
    LET file_ext == IF contains_dot(filename)
                    THEN lower(rsplit_tail(filename))
                    ELSE <<>>
    IN  IF file_ext \in {jpg, jpeg, png, gif, webp, bmp, tiff, tif}
        THEN IF file_ext \in {tif, tiff}
             THEN [type |-> "image", subtype |-> tiff]
             ELSE [type |-> "image", subtype |-> file_ext]
        ELSE [type |-> "application", subtype |-> octet_stream]

\* werkzeug's safe_join for a one-segment filename: '..' is refused
safe_join_ok(filename) == filename # dotdot

\* send_from_directory(base_dir, filename): NotFound (404) when safe_join
\* refuses the name or the path is no regular file, else the file
send_from_directory(files, dirs, dir, filename) ==
    LET path == osp_join(dir, filename) IN
    IF safe_join_ok(filename) /\ osp_isfile(files, dirs, path)
    THEN [status |-> 200, content |-> read_file(files, dirs, path),
          served |-> {path}]
    ELSE [status |-> 404, content |-> NoGet.content, served |-> {}]

\* the answer of show_result on a given disk
show_result(files, dirs, predict_folder, filename) ==
    LET dir == base_dir(predict_folder)
        path == osp_join(dir, filename)
        answer == IF ~osp_exists(files, dirs, path)
                  THEN [status |-> 404, content |-> NoGet.content,
                        served |-> {}]
                  ELSE send_from_directory(files, dirs, dir, filename)
    IN  [status |-> answer.status,
         predict_folder |-> predict_folder,
         filename |-> filename,
         mimetype |-> mimetype(filename),
         content |-> answer.content,
         tested |-> {path},
         served |-> answer.served]

ShowResult(predict_folder, filename) ==
    /\ get' = show_result(fs_files, fs_dirs, predict_folder, filename)
    /\ UNCHANGED <<fs_files, fs_dirs, post, agg>>

(***************************************************************************)
(* The statistics of one detection list, as upload_file builds them.       *)
(***************************************************************************)
MaxDet == 3

BoxChoices ==
    [cls : {0, 16, 80, 81}, conf : {2500, 8125, 8750}, xywhn : {Box}]

BoxLists == UNION {[1..n -> BoxChoices] : n \in 0..MaxDet}

Aggregate ==
    /\ ~agg.done
    /\ LET boxes == boxes_of([empty |-> FALSE, boxes |-> agg.boxes,
                              save_dir |-> <<>>])
       IN agg' = [agg EXCEPT
                    !.done = TRUE,
                    !.object_counts = final_object_counts(object_stats(boxes)),
                    !.detection_details = detection_details(boxes)]
    /\ UNCHANGED <<fs_files, fs_dirs, post, get>>

(***************************************************************************)
(* Specifications.                                                         *)
(***************************************************************************)
\* one POST of any filename; the result page it answers loads its image
\* with a GET for the pair it was given
Init ==
    /\ fs_files = FilesAtStart
    /\ fs_dirs = DirsAtStart
    /\ post \in [{1} -> Requests(Filenames)]
    /\ get = NoGet
    /\ agg = NoAgg

Next ==
    \/ \E r \in DOMAIN post : Validate(r)
    \/ \E r \in DOMAIN post : Save(r)
    \/ \E r \in DOMAIN post : Predict(r)
    \/ \E r \in DOMAIN post : PredictFail(r)
    \/ \E r \in DOMAIN post : Finish(r)
    \/ \E r \in DOMAIN post :
          /\ post[r].response.kind = "result"
          /\ ShowResult(post[r].response.predict_folder,
                        post[r].response.filename)

Spec == Init /\ [][Next]_vars

\* one POST, and GETs for any pair at any moment
InitServe ==
    /\ fs_files = FilesAtStart
    /\ fs_dirs = DirsAtStart
    /\ post \in [{1} -> Requests(ConcFilenames)]
    /\ get = NoGet
    /\ agg = NoAgg

NextServe ==
    \/ \E r \in DOMAIN post : Validate(r)
    \/ \E r \in DOMAIN post : Save(r)
    \/ \E r \in DOMAIN post : Predict(r)
    \/ \E r \in DOMAIN post : PredictFail(r)
    \/ \E r \in DOMAIN post : Finish(r)
    \/ \E folder \in GetFolders, name \in GetNames : ShowResult(folder, name)

SpecServe == InitServe /\ [][NextServe]_vars

\* two POSTs whose steps interleave (the server handles requests in threads)
InitConc ==
    /\ fs_files = FilesAtStart
    /\ fs_dirs = DirsAtStart
    /\ post \in [{1, 2} -> Requests(ConcFilenames)]
    /\ get = NoGet
    /\ agg = NoAgg

NextConc ==
    \/ \E r \in DOMAIN post : Validate(r)
    \/ \E r \in DOMAIN post : Save(r)
    \/ \E r \in DOMAIN post : Predict(r)
    \/ \E r \in DOMAIN post : PredictFail(r)
    \/ \E r \in DOMAIN post : Finish(r)

SpecConc == InitConc /\ [][NextConc]_vars

\* the statistics of every detection list up to MaxDet boxes
InitStats ==
    /\ fs_files = FilesAtStart
    /\ fs_dirs = DirsAtStart
    /\ post = [r \in {} |-> Request(FALSE, <<>>, "imgA")]
    /\ get = NoGet
    /\ agg \in {[NoAgg EXCEPT !.boxes = b] : b \in BoxLists}

NextStats == Aggregate

SpecStats == InitStats /\ [][NextStats]_vars

(***************************************************************************)
(* Properties.                                                             *)
(***************************************************************************)
\* s equals e up to the case of its letters
SameIgnoringCase(s, e) ==
    /\ Len(s) = Len(e)
    /\ \A k \in 1..Len(e) : s[k] \in {e[k], UpperChar(e[k])}

\* the filename holds a '.', and what follows its last '.' is an allowed
\* extension in any case
HasAllowedExtension(s) ==
    \E i \in 1..Len(s) :
        /\ s[i] = "."
        /\ \A j \in (i + 1)..Len(s) : s[j] # "."
        /\ \E e \in {png, jpg, jpeg, gif, webp, bmp, tiff, tif} :
              SameIgnoringCase(SubSeq(s, i + 1, Len(s)), e)

\* the detector answered the request's call (it did not raise)
Answered(p) == p.pc \in {"finish", "done"} /\ p.response.kind # "fault" /\ p.saved

OnDisk(path) == path \in DOMAIN fs_files \/ path \in fs_dirs

\* the folder the resolution rule gives: the last segment of the reported
\* directory when the candidate path exists, else the upload sentinel
RuleFolder(p) ==
    IF p.results.save_dir # <<>> /\ OnDisk(p.results.save_dir \o <<p.filename>>)
    THEN p.results.save_dir[Len(p.results.save_dir)]
    ELSE UPLOAD_FOLDER

\* C1: once the detector has answered an accepted upload, the request ends
\* in the result view (never an error) with the original filename, and the
\* logical folder is the base name of the reported output directory exactly
\* when output_dir/original_filename exists, the upload sentinel otherwise.
C1_ArtifactResolution ==
    \A r \in DOMAIN post :
        LET p == post[r] IN
        (p.pc = "done" /\ Answered(p)) =>
            /\ p.response.kind = "result"
            /\ p.response.filename = p.filename
            /\ p.response.predict_folder = RuleFolder(p)

\* a reported directory without the file: the request fell back
C1_Witness ==
    \E r \in DOMAIN post :
        LET p == post[r] IN
        /\ p.pc = "done" /\ p.response.kind = "result"
        /\ p.results.save_dir = <<runs, detect, predict2>>
        /\ ~OnDisk(<<runs, detect, predict2, p.filename>>)
        /\ p.response.predict_folder = UPLOAD_FOLDER

\* C2: a non-empty submitted filename is accepted (saved, then sent to the
\* detector) iff it holds a '.' and the lower-cased text after its last '.'
\* is an allowed extension; otherwise it is rejected.
C2_AcceptedIffAllowed ==
    \A r \in DOMAIN post :
        LET p == post[r] IN
        (p.has_file /\ p.filename # <<>> /\ p.pc # "recv") =>
            IF HasAllowedExtension(p.filename)
            THEN /\ p.response.kind # "redirect"
                 /\ p.pc \in {"predict", "finish", "done"} => p.saved
                 /\ p.pc \in {"finish", "done"} => p.predicted
            ELSE /\ p.pc = "done" /\ p.response.kind = "redirect"
                 /\ ~p.saved /\ ~p.predicted

\* an upper-case extension after a second '.', accepted and processed
C2_Witness ==
    \E r \in DOMAIN post :
        LET p == post[r] IN
        /\ p.filename = <<"c">> \o dot \o exe \o dot \o <<"J", "P", "G">>
        /\ p.pc = "done" /\ p.saved /\ p.predicted
        /\ p.response.kind = "result"

\* the request is one the handler must reject
RejectedInput(p) ==
    \/ ~p.has_file
    \/ p.filename = <<>>
    \/ ~HasAllowedExtension(p.filename)

\* C6: a rejected POST (no file, empty filename, extension not allowed)
\* never writes the upload, never invokes the detector, leaves the disk as
\* it was and ends in a redirect carrying an error message; the detector is
\* invoked only after the upload was written.
C6_RejectedLeavesNoTrace ==
    \A r \in DOMAIN post :
        LET p == post[r] IN
        /\ p.predicted => p.saved
        /\ RejectedInput(p) =>
              /\ ~p.saved /\ ~p.predicted
              /\ p.pc \in {"recv", "done"}
              /\ fs_files = FilesAtStart /\ fs_dirs = DirsAtStart
              /\ p.pc = "done" =>
                    (p.response.kind = "redirect" /\ p.response.error # "")

\* a .exe upload rejected with the extension named in the message
C6_Witness ==
    \E r \in DOMAIN post :
        LET p == post[r] IN
        /\ p.filename = c_exe /\ p.pc = "done"
        /\ p.response.kind = "redirect"
        /\ p.response.file_ext = <<"E", "X", "E">>

RECURSIVE ConfSum(_, _, _)
\* the sum of the confidences of the first n detections labelled `name`
ConfSum(boxes, name, n) ==
    IF n = 0 THEN 0
    ELSE ConfSum(boxes, name, n - 1)
            + (IF class_name(boxes[n].cls) = name THEN boxes[n].conf ELSE 0)

Labels(details) == {details[i].label : i \in 1..Len(details)}

\* C3: the statistics mapping has exactly one entry per label present in
\* the detection list, none with count 0; an entry's count is the number of
\* detections with that label, its average is (sum of their confidences /
\* count) x 100 to the nearest tenth; and every reordering of the list
\* gives the same mapping.
C3_Statistics ==
    agg.done =>
        LET counts == agg.object_counts
            details == agg.detection_details
            n == Len(agg.boxes)
        IN
        /\ Len(details) = n
        /\ DOMAIN counts = Labels(details)
        /\ \A name \in DOMAIN counts :
              LET c == Cardinality({i \in 1..n : details[i].label = name})
                  sum == ConfSum(agg.boxes, name, n)
                  tenths == counts[name].avg_conf.whole * 10
                                + counts[name].avg_conf.tenth
              IN  /\ counts[name].count = c
                  /\ c >= 1
                  /\ counts[name].avg_conf.tenth \in 0..9
                  \* |tenths/10 - 100 * (sum/10000)/c| <= 1/20
                  /\ 2 * (10 * c * tenths - sum) <= 10 * c
                  /\ 2 * (sum - 10 * c * tenths) <= 10 * c
        /\ \A perm \in Permutations(1..n) :
              final_object_counts(
                  object_stats([i \in 1..n |-> agg.boxes[perm[i]]])) = counts

\* two labels, one of them on two detections of different confidence
C3_Witness ==
    /\ agg.done
    /\ Cardinality(DOMAIN agg.object_counts) = 2
    /\ \E name \in DOMAIN agg.object_counts :
          /\ agg.object_counts[name].count = 2
          /\ \E i, j \in 1..Len(agg.boxes) :
                /\ i # j
                /\ class_name(agg.boxes[i].cls) = name
                /\ class_name(agg.boxes[j].cls) = name
                /\ agg.boxes[i].conf # agg.boxes[j].conf

\* the content type the claim gives for a filename
ClaimedContentType(filename) ==
    LET i == IF \E k \in 1..Len(filename) : filename[k] = "."
             THEN CHOOSE k \in 1..Len(filename) :
                      /\ filename[k] = "."
                      /\ \A j \in (k + 1)..Len(filename) : filename[j] # "."
             ELSE Len(filename)
        ext == SubSeq(filename, i + 1, Len(filename))
        Is(e) == SameIgnoringCase(ext, e)
    IN  IF Is(jpg) \/ Is(jpeg) THEN [type |-> "image", subtype |-> jpeg]
        ELSE IF Is(tif) \/ Is(tiff) THEN [type |-> "image", subtype |-> tiff]
        ELSE IF Is(png) THEN [type |-> "image", subtype |-> png]
        ELSE IF Is(gif) THEN [type |-> "image", subtype |-> gif]
        ELSE IF Is(webp) THEN [type |-> "image", subtype |-> webp]
        ELSE IF Is(bmp) THEN [type |-> "image", subtype |-> bmp]
        ELSE [type |-> "application", subtype |-> octet_stream]

\* C4: the content type show_result chooses is image/jpeg for jpg and jpeg,
\* image/<ext> for png, gif, webp and bmp, image/tiff for tif and tiff, and
\* application/octet-stream for anything else.
C4_ContentType ==
    get.status # 0 => get.mimetype = ClaimedContentType(get.filename)

\* the base directory the claims name for a logical folder
ClaimedBase(folder) ==
    IF folder = UPLOAD_FOLDER THEN <<UPLOAD_FOLDER>>
    ELSE RESULTS_BASE_FOLDER \o <<folder>>

\* C5: for every pair and every disk, show_result answers 200 or 404,
\* never a fault; 404 without content whenever base_directory/filename does
\* not exist; and content only when that path exists, the content of that
\* path.
C5_NotFound ==
    \A folder \in GetFolders, name \in GetNames :
        LET answer == show_result(fs_files, fs_dirs, folder, name)
            path == ClaimedBase(folder) \o <<name>>
            there == walk(fs_files, fs_dirs, <<>>, path)
        IN  /\ answer.status \in {200, 404}
            /\ ~there.ok =>
                  /\ answer.status = 404
                  /\ answer.served = {}
                  /\ answer.content = NoGet.content
            /\ answer.status = 200 =>
                  /\ there.ok
                  /\ there.at \in DOMAIN fs_files
                  /\ answer.content = fs_files[there.at]

\* a GET for a file that is not there was answered 404, on a disk where a
\* GET for the upload would be answered with the upload
C5_Witness ==
    /\ get.status = 404
    /\ get.predict_folder = predict2
    /\ get.filename = c_png
    /\ ~OnDisk(<<runs, detect, predict2, c_png>>)
    /\ show_result(fs_files, fs_dirs, UPLOAD_FOLDER, c_png).status = 200

RECURSIVE normpath(_)
\* the path with its '.' and '..' segments resolved
normpath(path) ==
    IF path = <<>> THEN <<>>
    ELSE LET front == normpath(SubSeq(path, 1, Len(path) - 1))
             seg == path[Len(path)]
         IN  IF seg = dot THEN front
             ELSE IF seg = dotdot
                  THEN IF front = <<>> THEN <<>>
                       ELSE SubSeq(front, 1, Len(front) - 1)
             ELSE Append(front, seg)

Inside(path, dir) ==
    LET np == normpath(path)
        nd == normpath(dir)
    IN  Len(np) >= Len(nd) /\ SubSeq(np, 1, Len(nd)) = nd

\* C8: every path show_result tests for existence or serves lies inside
\* its base directory.
C8_NoEscape ==
    \A path \in get.tested \cup get.served :
        Inside(path, ClaimedBase(get.predict_folder))

\* the file the resolver selected for a finished request
SelectedPath(p) ==
    IF p.results.save_dir # <<>>
       /\ p.results.save_dir \o <<p.filename>> \in DOMAIN fs_files
    THEN p.results.save_dir \o <<p.filename>>
    ELSE <<UPLOAD_FOLDER, p.filename>>

\* C9: the GET for the pair a successful POST returned is not answered 404
\* and serves the file the resolver selected.
C9_RoundTrip ==
    \A r \in DOMAIN post :
        LET p == post[r] IN
        (p.response.kind = "result" /\ get.status # 0
            /\ get.predict_folder = p.response.predict_folder
            /\ get.filename = p.response.filename) =>
            /\ get.status = 200
            /\ get.content = fs_files[SelectedPath(p)]

\* what a request returns when it runs alone on the bytes it uploaded, the
\* detector reporting the same directory and writing its copy or not
AloneResponse(p) ==
    LET boxes == IF p.results.empty THEN <<>> ELSE detector_boxes(p.bytes.img)
        candidate == p.results.save_dir \o <<p.filename>>
    IN  [NoResponse EXCEPT
            !.kind = "result",
            !.filename = p.filename,
            !.predict_folder =
                IF p.results.save_dir # <<>>
                   /\ (p.wrote_copy \/ candidate \in DOMAIN FilesAtStart)
                THEN p.results.save_dir[Len(p.results.save_dir)]
                ELSE UPLOAD_FOLDER,
            !.object_counts = final_object_counts(object_stats(boxes)),
            !.detection_details = detection_details(boxes)]

\* C10 as stated: under any interleaving of two POSTs, each returns what it
\* would return alone on its own image, the same filename included.
C10_Independent ==
    \A r \in DOMAIN post :
        LET p == post[r] IN
        (p.pc = "done" /\ p.response.kind = "result") =>
            p.response = AloneResponse(p)

\* C10 amended: under any interleaving of two POSTs that submit different
\* original filenames, each returns what it would return alone on its own
\* image.
C10_IndependentDistinctNames ==
    \A r \in DOMAIN post :
        LET p == post[r] IN
        (p.pc = "done" /\ p.response.kind = "result"
            /\ \A o \in DOMAIN post \ {r} : post[o].filename # p.filename) =>
            p.response = AloneResponse(p)

\* two finished requests with different filenames and images, the detector
\* writing both copies into the same directory
C10_Witness ==
    /\ DOMAIN post = {1, 2}
    /\ \A r \in DOMAIN post :
          /\ post[r].pc = "done" /\ post[r].response.kind = "result"
          /\ post[r].wrote_copy
          /\ post[r].results.save_dir = <<runs, detect, predict2>>
    /\ post[1].filename # post[2].filename
    /\ post[1].bytes # post[2].bytes

=============================================================================
